---------------------------- MODULE Spec2Model ----------------------------
(***************************************************************************)
(* Hyperboloid-model points and walls of src/src/utils/hyperpoint.rs.      *)
(*                                                                         *)
(* Numbers.  An f64 coordinate is modelled by the real number it stands    *)
(* for, held as a reduced fraction <<n, d>> with d > 0; "within tolerance" *)
(* in the specification is therefore exact equality here.  Coordinates,    *)
(* angles and boost parameters are finite.  The inputs are chosen so that  *)
(* every function the code calls has a rational value:                     *)
(*   - an angle is a whole number q of quarter turns (q * pi/2),           *)
(*   - a boost parameter is a whole number k of units ln 2, for which      *)
(*     cosh = (2^k + 2^-k)/2 and sinh = (2^k - 2^-k)/2,                    *)
(*   - sqrt is taken of squares of fractions only.                         *)
(* A distance (the result of acosh) is either NaN or the real acosh(c),    *)
(* c >= 1, held as [nan |-> FALSE, ch |-> c]: acosh is strictly increasing *)
(* on [1, inf), so two distances compare as their hyperbolic cosines do.   *)
(***************************************************************************)
EXTENDS Integers, Sequences, FiniteSets

(* ---------------------------- fractions -------------------------------- *)

Abs(n) == IF n < 0 THEN -n ELSE n

RECURSIVE GCD(_, _)
GCD(a, b) == IF b = 0 THEN a ELSE GCD(b, a % b)

\* The reduced fraction n/d (d # 0), sign carried by the numerator.
Rat(n, d) ==
    LET g == GCD(Abs(n), Abs(d))
        s == IF d < 0 THEN -1 ELSE 1
    IN  <<(s * n) \div g, (s * d) \div g>>

Zero == <<0, 1>>
One == <<1, 1>>
Two == <<2, 1>>

\* Least common multiple of two positive denominators.
LCM(a, b) == (a \div GCD(a, b)) * b

RAdd(a, b) ==
    LET l == LCM(a[2], b[2])
    IN  Rat(a[1] * (l \div a[2]) + b[1] * (l \div b[2]), l)
RNeg(a) == <<-a[1], a[2]>>
RSub(a, b) == RAdd(a, RNeg(b))
\* The common factors are cancelled crosswise before multiplying.
RMul(a, b) ==
    LET g == GCD(Abs(a[1]), b[2])
        h == GCD(Abs(b[1]), a[2])
    IN  Rat((a[1] \div g) * (b[1] \div h), (a[2] \div h) * (b[2] \div g))
\* a / b for b # 0
RDiv(a, b) == RMul(a, Rat(b[2], b[1]))
RLt(a, b) ==
    LET l == LCM(a[2], b[2])
    IN  a[1] * (l \div a[2]) < b[1] * (l \div b[2])

ISqrt(n) == CHOOSE r \in 0..n : r * r = n
\* f64::sqrt on the square of a fraction.
RSqrt(a) == <<ISqrt(a[1]), ISqrt(a[2])>>

RECURSIVE Pow2(_)
Pow2(k) == IF k = 0 THEN 1 ELSE 2 * Pow2(k - 1)

\* f64::cosh and f64::sinh of k * ln 2.
Cosh(k) == Rat(Pow2(2 * Abs(k)) + 1, Pow2(Abs(k) + 1))
Sinh(k) ==
    LET m == Rat(Pow2(2 * Abs(k)) - 1, Pow2(Abs(k) + 1))
    IN  IF k < 0 THEN RNeg(m) ELSE m

\* cos and sin of q quarter turns.
Cos(q) == CASE q % 4 = 0 -> One [] q % 4 = 2 -> RNeg(One) [] OTHER -> Zero
Sin(q) == CASE q % 4 = 1 -> One [] q % 4 = 3 -> RNeg(One) [] OTHER -> Zero

(* ------------------------- 3x3 matrices -------------------------------- *)

\* Matrix3::new takes its nine components row by row.
Matrix3(a, b, c, d, e, f, g, h, i) == <<<<a, b, c>>, <<d, e, f>>, <<g, h, i>>>>

Dot3(r, v) == RAdd(RAdd(RMul(r[1], v[1]), RMul(r[2], v[2])), RMul(r[3], v[3]))

\* matrix * column vector
MatVec(m, v) == <<Dot3(m[1], v), Dot3(m[2], v), Dot3(m[3], v)>>

Col(m, j) == <<m[1][j], m[2][j], m[3][j]>>

\* matrix * matrix
MatMul(m, n) ==
    [r \in 1..3 |-> [c \in 1..3 |-> Dot3(m[r], Col(n, c))]]

(* ---------------------------- distances -------------------------------- *)

NaN == [nan |-> TRUE]

\* f64::acosh: NaN below 1, otherwise the real acosh(c).
Acosh(c) == IF RLt(c, One) THEN NaN ELSE [nan |-> FALSE, ch |-> c]

IsNaN(d) == d.nan

\* d < e on f64: false as soon as one side is NaN.
FLt(d, e) == ~d.nan /\ ~e.nan /\ RLt(d.ch, e.ch)

\* f64::eq (PartialEq): NaN equals nothing, itself included.
FEq(d, e) == ~d.nan /\ ~e.nan /\ d.ch = e.ch

\* f64::min: when one argument is NaN the other one is returned.
FMin(d, e) ==
    IF d.nan THEN e
    ELSE IF e.nan THEN d
    ELSE IF RLt(e.ch, d.ch) THEN e ELSE d

\* f64::partial_cmp: Option<Ordering>, None when a side is NaN.
FPartialCmp(d, e) ==
    IF d.nan \/ e.nan THEN "None"
    ELSE IF RLt(d.ch, e.ch) THEN "Less"
    ELSE IF RLt(e.ch, d.ch) THEN "Greater"
    ELSE "Equal"

(* ---------------------------- Hyperpoint ------------------------------- *)

\* PoincarePoint::minkowski_dot: the squared Euclidean norm term u*u' + v*v'.
poincare_minkowski_dot(a, b) == RAdd(RMul(a[1], b[1]), RMul(a[2], b[2]))

new_with_z(x, y, z) == <<x, y, z>>

\* From<PoincarePoint> for Hyperpoint
from_poincare_point(pp) ==
    LET norm_squared == poincare_minkowski_dot(pp, pp)
    IN  new_with_z(RDiv(RMul(pp[1], Two), RSub(One, norm_squared)),
                   RDiv(RMul(pp[2], Two), RSub(One, norm_squared)),
                   RDiv(RAdd(One, norm_squared), RSub(One, norm_squared)))

new(x, y) ==
    LET z == RSqrt(RAdd(RAdd(One, RMul(x, x)), RMul(y, y)))
    IN  <<x, y, z>>

new_at_origin == new_with_z(Zero, Zero, One)

\* Fault: the rotation is taken about the x axis instead of the z axis.
rotate_about_x(p, angle) ==
    LET rot == Matrix3(One, Zero, Zero,
                       Zero, Cos(angle), RNeg(Sin(angle)),
                       Zero, Sin(angle), Cos(angle))
    IN  MatVec(rot, p)

\* Fault: sine and cosine exchanged in the rotation matrix.
rotate_sin_cos_swapped(p, angle) ==
    LET rot == Matrix3(Sin(angle), RNeg(Cos(angle)), Zero,
                       Cos(angle), Sin(angle), Zero,
                       Zero, Zero, One)
    IN  MatVec(rot, p)

\* Rotation3::from_axis_angle about the unit z axis, applied to the point.
rotate(p, angle) ==
    LET rot == Matrix3(Cos(angle), RNeg(Sin(angle)), Zero,
                       Sin(angle), Cos(angle), Zero,
                       Zero, Zero, One)
    IN  MatVec(rot, p)

\* Fault: the two boost matrices multiplied in the other order.
translate_swapped(p, x, y) ==
    LET coshb == Cosh(x)
        sinhb == Sinh(x)
        coshy == Cosh(-y)
        sinhy == Sinh(-y)
        translation1 == Matrix3(coshb, Zero, sinhb, Zero, One, Zero, sinhb, Zero, coshb)
        translation2 == Matrix3(One, Zero, Zero, Zero, coshy, sinhy, Zero, sinhy, coshy)
        translation == MatMul(translation2, translation1)
    IN  MatVec(translation, p)

\* Fault: the y matrix written as a Euclidean rotation (one sinh negated).
translate_euclidean_sign(p, x, y) ==
    LET coshb == Cosh(x)
        sinhb == Sinh(x)
        coshy == Cosh(-y)
        sinhy == Sinh(-y)
        translation1 == Matrix3(coshb, Zero, sinhb, Zero, One, Zero, sinhb, Zero, coshb)
        translation2 == Matrix3(One, Zero, Zero, Zero, coshy, RNeg(sinhy), Zero, sinhy, coshy)
        translation == MatMul(translation1, translation2)
    IN  MatVec(translation, p)

translate(p, x, y) ==
    LET coshb == Cosh(x)
        sinhb == Sinh(x)
        coshy == Cosh(-y)
        sinhy == Sinh(-y)
        translation1 == Matrix3(coshb, Zero, sinhb, Zero, One, Zero, sinhb, Zero, coshb)
        translation2 == Matrix3(One, Zero, Zero, Zero, coshy, sinhy, Zero, sinhy, coshy)
        translation == MatMul(translation1, translation2)
    IN  MatVec(translation, p)

minkowski_dot(a, b) ==
    RSub(RAdd(RMul(a[1], b[1]), RMul(a[2], b[2])), RMul(a[3], b[3]))

distance_to_origin(p) ==
    LET minkowski_bilinear == p[3]
    IN  Acosh(minkowski_bilinear)

(* ----------------------------- HyperWall ------------------------------- *)

HyperWall(b, e, c) == [beginning |-> b, end |-> e, color |-> c]

\* Fault: only the beginning of the wall is measured.
distance_to_closest_point_beginning(w) == distance_to_origin(w.beginning)

distance_to_closest_point(w) ==
    LET dist_a == distance_to_origin(w.beginning)
        dist_b == distance_to_origin(w.end)
    IN  FMin(dist_a, dist_b)

\* Fault: the stub answers "no intersection" instead of failing.
intersection_none(w, angle) == "None"

\* todo!(): the call panics, no Option<f64> is produced.
intersection(w, angle) == "panic: not yet implemented"

\* Fault: the endpoints exchanged by the conversion.
from_poincare_wall_swapped(pw) ==
    HyperWall(from_poincare_point(pw.end),
              from_poincare_point(pw.beginning),
              pw.color)

\* From<PoincareWall> for HyperWall
from_poincare_wall(pw) ==
    HyperWall(from_poincare_point(pw.beginning),
              from_poincare_point(pw.end),
              pw.color)

partial_cmp(w, other) ==
    FPartialCmp(distance_to_closest_point(w), distance_to_closest_point(other))

\* Fault: an absent ordering is taken for Equal instead of aborting.
UnwrapOrEqual(o) == IF o = "None" THEN "Equal" ELSE o

\* Option::unwrap
Unwrap(o) == IF o = "None" THEN "panic: unwrap on None" ELSE o

cmp(w, other) == Unwrap(partial_cmp(w, other))

\* Fault: structural equality (endpoints and color) instead of equality of keys.
eq_structural(w, other) == w = other

eq(w, other) ==
    FEq(distance_to_closest_point(w), distance_to_closest_point(other))

(* ------------------------- the modelled program ------------------------ *)
(* A scene of two walls, as the renderer holds it: the walls are built,    *)
(* their endpoints are moved by rotate and translate, and the walls are    *)
(* measured and compared.  A panic (unwrap on None, todo!()) ends the run. *)

VARIABLES
    walls,  \* walls[i]: the HyperWall i
    how,    \* how[i][e]: the constructor that made endpoint e of wall i
    ops,    \* number of calls made so far
    pc,     \* "run", or "panicked" once a call has aborted the program
    last    \* the last call: its name, arguments and outcome

vars == <<walls, how, ops, pc, last>>

\* Longest sequence of calls explored.
MaxOps == 2

WallIds == 1..2
Ends == {"beginning", "end"}
\* rotate's angles, in quarter turns: 0, pi/2, 2*pi.
Angles == {0, 1, 4}
\* translate's parameters, in units of ln 2.
Boosts == {0, 1}

Half == Rat(1, 2)

PoincareWall(b, e, c) == [beginning |-> b, end |-> e, color |-> c]

\* Poincare walls handed to the conversion; <<2, 0>> lies outside the disk.
PoincareWalls ==
    { PoincareWall(<<Zero, Zero>>, <<Half, Zero>>, "red"),
      PoincareWall(<<Zero, Half>>, <<Two, Zero>>, "blue") }

\* Whether the Poincare point lies in the open unit disk (the conversion's contract).
HowPoincare(pp) ==
    IF RLt(poincare_minkowski_dot(pp, pp), One)
    THEN "from_poincare_in_disk" ELSE "from_poincare_outside"

HowWall(pw) == [beginning |-> HowPoincare(pw.beginning), end |-> HowPoincare(pw.end)]

\* A point off the hyperboloid (z < 1), as new_with_z and Deserialize accept it.
Malformed == new_with_z(Zero, Zero, Half)

\* The walls a scene starts with, each with the constructors of its endpoints.
\* Far-and-near wall: endpoints at z = 17/8 and z = 5/4.
WallA ==
    [w |-> HyperWall(new(Rat(15, 8), Zero), new(Zero, Rat(3, 4)), "red"),
     h |-> [beginning |-> "new", end |-> "new"]]
\* Both endpoints at z = 5/3.
WallB ==
    [w |-> from_poincare_wall(PoincareWall(<<Half, Zero>>, <<Zero, Half>>, "blue")),
     h |-> [beginning |-> "from_poincare_in_disk", end |-> "from_poincare_in_disk"]]
\* One malformed endpoint, the other at the origin.
WallC ==
    [w |-> HyperWall(Malformed, new_at_origin, "red"),
     h |-> [beginning |-> "new_with_z", end |-> "new_at_origin"]]
\* Two malformed endpoints.
WallD ==
    [w |-> HyperWall(Malformed, from_poincare_point(<<Two, Zero>>), "blue"),
     h |-> [beginning |-> "new_with_z", end |-> "from_poincare_outside"]]
\* Nearest endpoint at z = 5/4 as for WallA, other endpoints, other color.
WallE ==
    [w |-> HyperWall(new(Rat(3, 4), Zero), new(Zero, Rat(4, 3)), "blue"),
     h |-> [beginning |-> "new", end |-> "new"]]

Scenes == { <<WallA, WallB>>, <<WallE, WallA>>, <<WallC, WallD>>, <<WallD, WallB>> }

Init ==
    /\ \E s \in Scenes :
          /\ walls = [i \in WallIds |-> s[i].w]
          /\ how = [i \in WallIds |-> s[i].h]
    /\ ops = 0
    /\ pc = "run"
    /\ last = [op |-> "none"]

CanCall == pc = "run" /\ ops < MaxOps

\* A call that unwinds instead of returning.
IsPanic(out) == out \in {"panic: unwrap on None", "panic: not yet implemented"}

\* p.rotate(angle) on endpoint e of wall i
Rotate(i, e, angle) ==
    /\ CanCall
    /\ walls' = [walls EXCEPT ![i][e] = rotate(@, angle)]
    /\ last' = [op |-> "rotate", i |-> i, e |-> e, angle |-> angle]
    /\ ops' = ops + 1
    /\ UNCHANGED <<how, pc>>

\* p.translate(x, y) on endpoint e of wall i
Translate(i, e, x, y) ==
    /\ CanCall
    /\ walls' = [walls EXCEPT ![i][e] = translate(@, x, y)]
    /\ last' = [op |-> "translate", i |-> i, e |-> e, x |-> x, y |-> y]
    /\ ops' = ops + 1
    /\ UNCHANGED <<how, pc>>

\* walls[i] = HyperWall::from(pw)
ConvertWall(i, pw) ==
    /\ CanCall
    /\ walls' = [walls EXCEPT ![i] = from_poincare_wall(pw)]
    /\ how' = [how EXCEPT ![i] = HowWall(pw)]
    /\ last' = [op |-> "from", i |-> i, pw |-> pw]
    /\ ops' = ops + 1
    /\ UNCHANGED pc

\* walls[i].distance_to_closest_point()
DistanceToClosestPoint(i) ==
    /\ CanCall
    /\ last' = [op |-> "distance_to_closest_point", i |-> i,
                out |-> distance_to_closest_point(walls[i])]
    /\ ops' = ops + 1
    /\ UNCHANGED <<walls, how, pc>>

\* walls[i].intersection(angle)
Intersection(i, angle) ==
    /\ CanCall
    /\ LET out == intersection(walls[i], angle)
       IN  /\ last' = [op |-> "intersection", i |-> i, angle |-> angle, out |-> out]
           /\ pc' = IF IsPanic(out) THEN "panicked" ELSE "run"
    /\ ops' = ops + 1
    /\ UNCHANGED <<walls, how>>

\* walls[i].partial_cmp(&walls[j])
PartialCmp(i, j) ==
    /\ CanCall
    /\ last' = [op |-> "partial_cmp", i |-> i, j |-> j,
                out |-> partial_cmp(walls[i], walls[j])]
    /\ ops' = ops + 1
    /\ UNCHANGED <<walls, how, pc>>

\* walls[i].cmp(&walls[j])
Cmp(i, j) ==
    /\ CanCall
    /\ LET out == cmp(walls[i], walls[j])
       IN  /\ last' = [op |-> "cmp", i |-> i, j |-> j, out |-> out]
           /\ pc' = IF IsPanic(out) THEN "panicked" ELSE "run"
    /\ ops' = ops + 1
    /\ UNCHANGED <<walls, how>>

\* walls[i] == walls[j]
Eq(i, j) ==
    /\ CanCall
    /\ last' = [op |-> "eq", i |-> i, j |-> j, out |-> eq(walls[i], walls[j])]
    /\ ops' = ops + 1
    /\ UNCHANGED <<walls, how, pc>>

Next ==
    \/ \E i \in WallIds, e \in Ends, angle \in Angles : Rotate(i, e, angle)
    \/ \E i \in WallIds, e \in Ends, x \in Boosts, y \in Boosts : Translate(i, e, x, y)
    \/ \E i \in WallIds, pw \in PoincareWalls : ConvertWall(i, pw)
    \/ \E i \in WallIds : DistanceToClosestPoint(i)
    \/ \E i \in WallIds, angle \in Angles : Intersection(i, angle)
    \/ \E i \in WallIds, j \in WallIds : PartialCmp(i, j)
    \/ \E i \in WallIds, j \in WallIds : Cmp(i, j)
    \/ \E i \in WallIds, j \in WallIds : Eq(i, j)

Spec == Init /\ [][Next]_vars

(* ------------------------------ properties ----------------------------- *)

\* A step that made the call `name`.
Called(name) == ops' = ops + 1 /\ last'.op = name

Key(i) == distance_to_closest_point(walls[i])

\* The distances of the wall's endpoints that are numbers.
EndDists(w) ==
    { d \in {distance_to_origin(w.beginning), distance_to_origin(w.end)} : ~IsNaN(d) }

\* Some endpoint of wall a is strictly closer to the origin than every endpoint of b.
Closer(a, b) == \E d \in EndDists(a) : \A f \in EndDists(b) : FLt(d, f)

Orderings == {"Less", "Equal", "Greater"}

\* C1: when neither key is NaN, cmp and partial_cmp order two walls by the
\* least of their endpoint distances, ascending: the outcome is Less exactly
\* when the nearest endpoint of the first wall is nearer than the nearest
\* endpoint of the second, Greater in the mirrored case, Equal otherwise,
\* whichever endpoint is the nearest and whatever the colors.
C1_OrderedByClosestPoint ==
    (last.op \in {"cmp", "partial_cmp"} /\ ~IsNaN(Key(last.i)) /\ ~IsNaN(Key(last.j)))
    => LET a == walls[last.i]
           b == walls[last.j]
       IN  /\ last.out \in Orderings
           /\ (last.out = "Less") <=> Closer(a, b)
           /\ (last.out = "Greater") <=> Closer(b, a)

\* The specification's example: a wall with endpoints at {near, far} sorts before
\* a wall with both endpoints in between; the near end is `end`, colors differ.
C1_Witness ==
    /\ last.op = "cmp"
    /\ last.out = "Less"
    /\ LET a == walls[last.i]
           b == walls[last.j]
       IN  /\ FLt(distance_to_origin(a.end), distance_to_origin(b.beginning))
           /\ FLt(distance_to_origin(a.end), distance_to_origin(b.end))
           /\ FLt(distance_to_origin(b.beginning), distance_to_origin(a.beginning))
           /\ FLt(distance_to_origin(b.end), distance_to_origin(a.beginning))
           /\ a.color # b.color

\* C2: cmp aborts the program exactly when the key of one of the two walls is
\* NaN and otherwise returns an ordering; partial_cmp never aborts and returns
\* None exactly when a key is NaN.
C2_CmpAbortsOnNaNKey ==
    /\ last.op = "cmp" =>
          /\ (pc = "panicked") <=> (IsNaN(Key(last.i)) \/ IsNaN(Key(last.j)))
          /\ (pc = "panicked") => last.out = "panic: unwrap on None"
          /\ (pc # "panicked") => last.out \in Orderings
    /\ last.op = "partial_cmp" =>
          /\ pc = "run"
          /\ (last.out = "None") <=> (IsNaN(Key(last.i)) \/ IsNaN(Key(last.j)))
          /\ (last.out # "None") => last.out \in Orderings

\* cmp has aborted on a pair of which exactly one wall has a NaN key.
C2_Witness ==
    /\ last.op = "cmp"
    /\ pc = "panicked"
    /\ IsNaN(Key(last.i)) # IsNaN(Key(last.j))

\* C3: if an endpoint of a wall is malformed (its distance_to_origin is NaN),
\* the wall's distance_to_closest_point is NaN as well.
C3_NaNPropagatesToKey ==
    last.op = "distance_to_closest_point" =>
        LET w == walls[last.i]
        IN  (IsNaN(distance_to_origin(w.beginning)) \/ IsNaN(distance_to_origin(w.end)))
            => IsNaN(last.out)

\* The boost along x with parameter d: cosh(d), sinh(d) mixing x and z.
XBoost(p, d) ==
    <<RAdd(RMul(Cosh(d), p[1]), RMul(Sinh(d), p[3])),
      p[2],
      RAdd(RMul(Sinh(d), p[1]), RMul(Cosh(d), p[3]))>>

\* The boost along y with parameter d: cosh(d), sinh(d) mixing y and z.
YBoost(p, d) ==
    <<p[1],
      RAdd(RMul(Cosh(d), p[2]), RMul(Sinh(d), p[3])),
      RAdd(RMul(Sinh(d), p[2]), RMul(Cosh(d), p[3]))>>

\* The endpoint the last rotate or translate was called on, before and after.
Receiver == walls[last'.i][last'.e]
ReceiverAfter == walls'[last'.i][last'.e]

\* C4 as stated: translate(dx, dy) replaces p by the y-boost with parameter
\* -dy of the x-boost with parameter dx of p (x-boost first, y-boost second).
C4_XBoostThenYBoost ==
    [][Called("translate")
       => ReceiverAfter = YBoost(XBoost(Receiver, last'.x), -last'.y)]_vars

\* C4 amended: translate(dx, dy) replaces p by the x-boost with parameter dx
\* of the y-boost with parameter -dy of p (y-boost first, x-boost second).
C4_YBoostThenXBoost ==
    [][Called("translate")
       => ReceiverAfter = XBoost(YBoost(Receiver, -last'.y), last'.x)]_vars

\* translate was called with both parameters nonzero on a point off both axes
\* planes, where the two orders of the boosts give different points.
C4_Witness ==
    /\ last.op = "translate"
    /\ last.x # 0
    /\ last.y # 0
    /\ walls[last.i][last.e][1] # Zero
    /\ walls[last.i][last.e][2] # Zero

InContract == {"new", "new_at_origin", "from_poincare_in_disk"}

\* Natural numbers in base 4096, least digit first: the squares of the
\* coordinates' numerators do not fit a machine integer of the model checker.
Base == 64 * 64
Digits(n) == <<n % Base, (n \div Base) % Base, n \div (Base * Base)>>

\* The square of n, as coefficients of the powers of Base (before carrying).
SquareCoeffs(n) ==
    LET a == Digits(n)
    IN  <<a[1] * a[1],
          2 * a[1] * a[2],
          2 * a[1] * a[3] + a[2] * a[2],
          2 * a[2] * a[3],
          a[3] * a[3]>>

RECURSIVE Carried(_, _)
Carried(c, carry) ==
    IF c = <<>>
    THEN IF carry = 0 THEN <<>> ELSE <<carry % Base>> \o Carried(<<>>, carry \div Base)
    ELSE LET t == Head(c) + carry
         IN  <<t % Base>> \o Carried(Tail(c), t \div Base)

\* x^2 + y^2 - z^2 = -1 and z >= 1, for x = X/L, y = Y/L, z = Z/L over the
\* common denominator L: X^2 + Y^2 + L^2 = Z^2.
OnHyperboloid(p) ==
    LET L == LCM(LCM(p[1][2], p[2][2]), p[3][2])
        X == Abs(p[1][1]) * (L \div p[1][2])
        Y == Abs(p[2][1]) * (L \div p[2][2])
        Z == Abs(p[3][1]) * (L \div p[3][2])
        lhs == [k \in 1..5 |-> SquareCoeffs(X)[k] + SquareCoeffs(Y)[k] + SquareCoeffs(L)[k]]
    IN  /\ Carried(lhs, 0) = Carried(SquareCoeffs(Z), 0)
        /\ ~RLt(p[3], One)

\* C5: every point made by new, new_at_origin or the conversion of a Poincare
\* point inside the unit disk, and then rotated and translated any number of
\* times, satisfies x^2 + y^2 - z^2 = -1 and z >= 1.
C5_HyperboloidInvariant ==
    \A i \in WallIds, e \in Ends :
        how[i][e] \in InContract => OnHyperboloid(walls[i][e])

\* A converted point that has been moved twice, last by a translate along both axes.
C5_Witness ==
    /\ ops >= 2
    /\ last.op = "translate"
    /\ last.x # 0
    /\ last.y # 0
    /\ how[last.i][last.e] = "from_poincare_in_disk"
    /\ walls[last.i][last.e] # from_poincare_point(<<Half, Zero>>)
    /\ walls[last.i][last.e] # from_poincare_point(<<Zero, Half>>)

\* C6: intersection fails on every wall and every angle: the call ends in the
\* not-implemented panic and yields no value, neither Some(distance) nor None.
C6_IntersectionAlwaysFails ==
    last.op = "intersection" =>
        /\ pc = "panicked"
        /\ last.out = "panic: not yet implemented"

C6_Witness ==
    /\ last.op = "intersection"
    /\ last.angle = 1
    /\ pc = "panicked"
    /\ ops >= 2

\* C7: two walls are equal (== is true, cmp is Equal) exactly when their keys
\* are float-equal, whatever their endpoints and colors; two walls with the
\* same endpoints are unequal only when their key is NaN.
C7_EqualByKeyOnly ==
    /\ last.op = "eq" =>
          /\ last.out <=> FEq(Key(last.i), Key(last.j))
          /\ (~last.out
              /\ walls[last.i].beginning = walls[last.j].beginning
              /\ walls[last.i].end = walls[last.j].end) => IsNaN(Key(last.i))
    /\ last.op = "cmp" =>
          (last.out = "Equal") <=> FEq(Key(last.i), Key(last.j))

\* == holds of two walls that differ in both endpoints and in color.
C7_Witness ==
    /\ last.op = "eq"
    /\ last.out
    /\ walls[last.i].beginning # walls[last.j].beginning
    /\ walls[last.i].end # walls[last.j].end
    /\ walls[last.i].color # walls[last.j].color

\* C8: rotate(0), rotate(2*pi) and translate(0, 0) leave the point, and with it
\* the whole scene, as it was.
C8_IdentityIsometries ==
    [][/\ (Called("rotate") /\ last'.angle \in {0, 4}) => walls' = walls
       /\ (Called("translate") /\ last'.x = 0 /\ last'.y = 0) => walls' = walls]_vars

\* rotate(2*pi) was called, after another call, on a point off the z axis.
C8_Witness ==
    /\ ops >= 2
    /\ last.op = "rotate"
    /\ last.angle = 4
    /\ walls[last.i][last.e][1] # Zero
    /\ how[last.i][last.e] \in InContract

\* C9: the conversion of a Poincare wall converts the beginning to the
\* beginning and the end to the end, each by the point conversion, keeps the
\* color, and sends a Poincare endpoint (0, 0) to the origin (0, 0, 1).
C9_WallConversion ==
    last.op = "from" =>
        LET w == walls[last.i]
            pw == last.pw
        IN  /\ w.beginning = from_poincare_point(pw.beginning)
            /\ w.end = from_poincare_point(pw.end)
            /\ w.color = pw.color
            /\ \A e \in Ends : pw[e] = <<Zero, Zero>> => w[e] = <<Zero, Zero, One>>

\* A wall from the Poincare origin to another point has been converted.
C9_Witness ==
    /\ last.op = "from"
    /\ last.pw.beginning = <<Zero, Zero>>
    /\ last.pw.end # <<Zero, Zero>>
    /\ walls[last.i].beginning = new_at_origin
    /\ walls[last.i].end # new_at_origin

\* The scene but for the receiver of the call is as it was.
OthersUnchanged ==
    /\ \A i \in WallIds, e \in Ends :
          (i # last'.i \/ e # last'.e) => walls'[i][e] = walls[i][e]
    /\ \A i \in WallIds : walls'[i].color = walls[i].color

\* C10: rotate leaves z unchanged, hence every endpoint's distance_to_origin,
\* every wall's key and every comparison of two walls; rotate and translate
\* change the receiver only, no other point and no color.
C10_RotateKeepsOrder ==
    [][/\ Called("rotate") =>
             /\ ReceiverAfter[3] = Receiver[3]
             /\ \A i \in WallIds, e \in Ends :
                   distance_to_origin(walls'[i][e]) = distance_to_origin(walls[i][e])
             /\ \A i \in WallIds :
                   distance_to_closest_point(walls'[i]) = distance_to_closest_point(walls[i])
             /\ \A i \in WallIds, j \in WallIds :
                   /\ cmp(walls'[i], walls'[j]) = cmp(walls[i], walls[j])
                   /\ partial_cmp(walls'[i], walls'[j]) = partial_cmp(walls[i], walls[j])
                   /\ eq(walls'[i], walls'[j]) = eq(walls[i], walls[j])
             /\ OthersUnchanged
       /\ Called("translate") => OthersUnchanged]_vars

\* A quarter turn has moved an endpoint that a translate had taken off the z axis.
C10_Witness ==
    /\ ops >= 2
    /\ last.op = "rotate"
    /\ last.angle = 1
    /\ walls[last.i][last.e][1] # Zero
    /\ walls[last.i][last.e][2] # Zero

=============================================================================
